---------------------------- MODULE Spec2Model ----------------------------
(***************************************************************************)
(* Model of the Gemini invocation layer of ai_services:                    *)
(*   services/key_manager.py   KeyManager   (credential rotation)          *)
(*   services/throttler.py     Throttler    (call pacing)                  *)
(*   services/cache.py         Cache        (response cache)               *)
(*   services/gemini_client.py GeminiClient (cache -> pace -> retry loop)  *)
(*                                                                         *)
(* The service runs on one asyncio event loop: code between two await      *)
(* points runs without interleaving, so each action below is one such      *)
(* segment of a coroutine.                                                 *)
(*                                                                         *)
(* Time is discrete (seconds) and kept relative to the present: instead    *)
(* of time.time() and the timestamp last_request_time the model keeps      *)
(* their difference, elapsed, and instead of a wake-up time each sleeping  *)
(* coroutine keeps the time it still has to sleep.  Tick lets one second   *)
(* pass.  A sleeping coroutine resumes at any instant at or after the end  *)
(* of its sleep.  Differences are counted up to MaxDelay, the largest      *)
(* value the code ever compares them with.                                 *)
(***************************************************************************)
EXTENDS Integers, Sequences, FiniteSets, TLC

VARIABLES
    keys,               \* KeyManager.keys
    current_index,      \* KeyManager.current_index
    failed_keys,        \* KeyManager.failed_keys
    elapsed,            \* Throttler: time.time() - last_request_time
                        \* (NoTime while last_request_time is None)
    write_bit,          \* flips at every assignment to last_request_time
    lock_owner,         \* Throttler._lock: the coroutine holding it
    lock_waiters,       \* Throttler._lock: FIFO of coroutines blocked on it
    redis_client,       \* Cache.redis_client is not None
    memory_cache,       \* Cache.memory_cache
    redis_store,        \* the contents of the Redis database
    retry_delays,       \* settings.get_retry_delays()
    call,               \* per coroutine: its position and locals
    calls_started,      \* number of call_with_retry invocations so far
    since_post,         \* time since the start of the last outbound POST
    key_log,            \* keys returned by consecutive get_key calls
    log_cursor,         \* current_index at the first call of key_log
    log_prev,           \* the key get_key returned last before key_log
    km_op,              \* the last KeyManager method called, the key it
                        \* returned (or was given) and whether it ran the
                        \* automatic failed_keys.clear()
    cache_op,           \* the last direct Cache.get / Cache.set call, with
                        \* its arguments and what get returned
    written             \* per key of a direct Cache.set: the value and ttl
                        \* given, and the time left until ttl seconds are over

kmVars    == <<keys, current_index, failed_keys, km_op>>
thVars    == <<elapsed, write_bit, lock_owner, lock_waiters>>
cacheVars == <<redis_client, memory_cache, redis_store, cache_op, written>>
logVars   == <<key_log, log_cursor, log_prev>>
vars == <<keys, current_index, failed_keys, elapsed, write_bit, lock_owner,
          lock_waiters, redis_client, memory_cache, redis_store, retry_delays,
          call, calls_started, since_post, key_log, log_cursor, log_prev,
          km_op, cache_op, written>>

----------------------------------------------------------------------------
\* Bounds of the model.
NumCallers == 2
MaxCalls   == 3
MaxRetries == 2
MaxKeys    == 3
MaxLog     == 5
MaxTtl     == 2

\* Program constants.
MinDelay == 2
MaxDelay == 4
CacheTtl == 7200

NoTime   == -1
NoCaller == 0
NoKey    == "None"

Prompts == {"p1", "p2"}
Texts   == {"t1", "t2"}
FallbackText == "Unable to generate response at this time."

Min(a, b) == IF a < b THEN a ELSE b

----------------------------------------------------------------------------
\* KeyManager

BlankKeys == {"", " "}

\* What km_op records of one call; bit changes with every call.
KmOp(op, key, cleared) ==
    [op |-> op, key |-> key, cleared |-> cleared, bit |-> ~km_op.bit]
NoOp == [op |-> "none", key |-> NoKey, cleared |-> FALSE, bit |-> FALSE]

\* [k for k in self.keys if k not in self.failed_keys]
Available(ks, failed) == SelectSeq(ks, LAMBDA k : k \notin failed)

\* The credentials of a key list.
KeySet(ks) == {ks[i] : i \in 1..Len(ks)}

\* __init__ that keeps the blank entries.
KeyManagerInit_KeepsBlanks(api_keys) == api_keys

\* KeyManager.__init__: blank and whitespace-only entries are dropped.
KeyManagerInit(api_keys) == SelectSeq(api_keys, LAMBDA k : k \notin BlankKeys)

\* get_key that answers None when every key is failed, as its docstring
\* has it.
get_key_NoneIfAllFailed(ks, idx, failed) ==
    IF ks = <<>> \/ Available(ks, failed) = <<>>
    THEN [key |-> NoKey, current_index |-> idx, failed_keys |-> failed,
          cleared |-> FALSE]
    ELSE LET available == Available(ks, failed)
             n         == Len(available)
         IN  [key           |-> available[(idx % n) + 1],
              current_index |-> (idx + 1) % n,
              failed_keys   |-> failed,
              cleared       |-> FALSE]

\* get_key that advances the cursor without wrapping it.
get_key_NoWrap(ks, idx, failed) ==
    IF ks = <<>>
    THEN [key |-> NoKey, current_index |-> idx, failed_keys |-> failed,
          cleared |-> FALSE]
    ELSE LET unfailed  == Available(ks, failed)
             available == IF unfailed = <<>> THEN ks ELSE unfailed
             n         == Len(available)
         IN  [key           |-> available[(idx % n) + 1],
              current_index |-> idx + 1,
              failed_keys   |-> IF unfailed = <<>> THEN {} ELSE failed,
              cleared       |-> unfailed = <<>>]

\* get_key that wraps the cursor by the number of configured keys.
get_key_WrapsByTotal(ks, idx, failed) ==
    IF ks = <<>>
    THEN [key |-> NoKey, current_index |-> idx, failed_keys |-> failed,
          cleared |-> FALSE]
    ELSE LET unfailed  == Available(ks, failed)
             available == IF unfailed = <<>> THEN ks ELSE unfailed
             n         == Len(available)
         IN  [key           |-> available[(idx % n) + 1],
              current_index |-> (idx + 1) % Len(ks),
              failed_keys   |-> IF unfailed = <<>> THEN {} ELSE failed,
              cleared       |-> unfailed = <<>>]

\* get_key that forgets to advance the cursor.
get_key_Stuck(ks, idx, failed) ==
    IF ks = <<>>
    THEN [key |-> NoKey, current_index |-> idx, failed_keys |-> failed,
          cleared |-> FALSE]
    ELSE LET unfailed  == Available(ks, failed)
             available == IF unfailed = <<>> THEN ks ELSE unfailed
             n         == Len(available)
         IN  [key           |-> available[(idx % n) + 1],
              current_index |-> idx % n,
              failed_keys   |-> IF unfailed = <<>> THEN {} ELSE failed,
              cleared       |-> unfailed = <<>>]

\* KeyManager.get_key: the key returned and the fields it leaves behind.
get_key(ks, idx, failed) ==
    IF ks = <<>>
    THEN [key |-> NoKey, current_index |-> idx, failed_keys |-> failed,
          cleared |-> FALSE]
    ELSE LET unfailed  == Available(ks, failed)
             available == IF unfailed = <<>> THEN ks ELSE unfailed
             n         == Len(available)
         IN  [key           |-> available[(idx % n) + 1],
              current_index |-> (idx + 1) % n,
              failed_keys   |-> IF unfailed = <<>> THEN {} ELSE failed,
              cleared       |-> unfailed = <<>>]

----------------------------------------------------------------------------
\* Throttler

\* wait() that sleeps one second too little.
WaitTime_Short(e, required_delay) ==
    IF e # NoTime /\ e < required_delay
    THEN required_delay - e - 1
    ELSE 0

\* Throttler.wait, lines 37-46: the sleep it asks for (0: none), given
\* e = now - last_request_time.
WaitTime(e, required_delay) ==
    IF e # NoTime /\ e < required_delay
    THEN required_delay - e
    ELSE 0

\* wait() without its lock.
LockFree_Always == TRUE

\* asyncio.Lock.acquire returns at once only when the lock is free and
\* nobody is queued for it.
LockFree == lock_owner = NoCaller /\ lock_waiters = <<>>

\* One second later.
Later(t) == IF t = NoTime THEN NoTime ELSE Min(t + 1, MaxDelay)

----------------------------------------------------------------------------
\* Cache

Absent       == [type |-> "none", text |-> ""]
DictValue(t) == [type |-> "dict", text |-> t]
StrValue(s)  == [type |-> "str", text |-> s]

\* Cache._hash_text: md5 of the text.
hash_text(text) ==
    CASE text = "p1" -> "h1"
      [] text = "p2" -> "h2"
      [] OTHER       -> "h0"

\* f"gemini:{self._hash_text(prompt)}"
GeminiKey(prompt) == <<"gemini", ":", hash_text(prompt)>>

MemGet(key) == IF key \in DOMAIN memory_cache THEN memory_cache[key] ELSE Absent

\* Redis drops an entry when its time to live is over.
RedisGet(key) ==
    IF key \in DOMAIN redis_store /\ redis_store[key].ttl > 0
    THEN StrValue(redis_store[key].value)
    ELSE Absent

\* Cache.get
CacheGet(key) == IF redis_client THEN RedisGet(key) ELSE MemGet(key)

\* set that keeps the entry a key already has.
Put_KeepsOld(store, key, value) ==
    [k \in DOMAIN store \cup {key} |->
        IF k \in DOMAIN store THEN store[k] ELSE value]

\* self.memory_cache[key] = value; SETEX key ttl value
Put(store, key, value) ==
    [k \in DOMAIN store \cup {key} |-> IF k = key THEN value ELSE store[k]]

\* self.redis_client.setex(key, ttl, value)
RedisSetex(store, key, value, ttl) ==
    IF value.type = "str"
    THEN [ok |-> TRUE,
          store |-> Put(store, key, [value |-> value.text, ttl |-> ttl])]
    ELSE [ok |-> FALSE, store |-> store]

\* Cache.set: redis-py refuses a value that is not bytes, str, int or float
\* (DataError), which set catches and answers False.
CacheSet(key, value, ttl) ==
    IF redis_client
    THEN LET r == RedisSetex(redis_store, key, value, ttl)
         IN  [ok |-> r.ok, memory |-> memory_cache, redis |-> r.store]
    ELSE [ok |-> TRUE, memory |-> Put(memory_cache, key, value),
          redis |-> redis_store]

\* Cache.get_gemini_response
get_gemini_response(prompt) == CacheGet(GeminiKey(prompt))

\* Cache.set_gemini_response
set_gemini_response(prompt, response) ==
    CacheSet(GeminiKey(prompt), response, CacheTtl)

\* What cache_op records of one call; bit changes with every call.
\* (key: the key or the pattern given; count: what clear_pattern returned)
CacheOp(op, key, value, ttl, result, count) ==
    [op |-> op, key |-> key, value |-> value, ttl |-> ttl,
     result |-> result, count |-> count, fault |-> "none",
     bit |-> ~cache_op.bit]
NoCacheOp ==
    [op |-> "none", key |-> <<>>, value |-> "", ttl |-> 0, result |-> Absent,
     count |-> 0, fault |-> "none", bit |-> FALSE]

\* Keys and patterns are sequences of tokens, "ns:x" being <<"ns", ":", "x">>.

\* pattern.replace('*', '')
StripStars(pattern) == SelectSeq(pattern, LAMBDA t : t # "*")

\* sub in k
Contains(k, sub) ==
    \E i \in 0..(Len(k) - Len(sub)) : SubSeq(k, i + 1, i + Len(sub)) = sub

\* k.startswith(prefix)
StartsWith(k, prefix) ==
    Len(prefix) <= Len(k) /\ SubSeq(k, 1, Len(prefix)) = prefix

\* Redis KEYS pattern: glob matching, * standing for any run of characters.
RECURSIVE GlobMatch(_, _)
GlobMatch(p, k) ==
    IF p = <<>> THEN k = <<>>
    ELSE IF Head(p) = "*"
         THEN GlobMatch(Tail(p), k) \/ (k # <<>> /\ GlobMatch(p, Tail(k)))
         ELSE k # <<>> /\ Head(k) = Head(p) /\ GlobMatch(Tail(p), Tail(k))

Remove(store, ks) == [k \in DOMAIN store \ ks |-> store[k]]

\* Cache.clear_pattern, lines 95-98: the in-memory branch.
MemClear(store, pattern) ==
    LET del == {k \in DOMAIN store : Contains(k, StripStars(pattern))}
    IN  [store |-> Remove(store, del), count |-> Cardinality(del)]

\* Cache.clear_pattern, lines 88-92: KEYS pattern, then DEL of what it found.
RedisClear(store, pattern) ==
    LET del == {k \in DOMAIN store :
                   store[k].ttl > 0 /\ GlobMatch(pattern, k)}
    IN  [store |-> Remove(store, del), count |-> Cardinality(del)]

\* Cache.clear_pattern
CacheClearPattern(pattern) ==
    IF redis_client
    THEN LET r == RedisClear(redis_store, pattern)
         IN  [memory |-> memory_cache, redis |-> r.store, count |-> r.count]
    ELSE LET r == MemClear(memory_cache, pattern)
         IN  [memory |-> r.store, redis |-> redis_store, count |-> r.count]

\* Cache.delete
CacheDelete(key) ==
    IF redis_client
    THEN [memory |-> memory_cache, redis |-> Remove(redis_store, {key})]
    ELSE [memory |-> Remove(memory_cache, {key}), redis |-> redis_store]

\* Python truth of a cached value: None and "" are false.
Truthy(v) == v.type = "dict" \/ (v.type = "str" /\ v.text # "")

----------------------------------------------------------------------------
\* GeminiClient

\* call_with_retry: temperature = 0.7 (in tenths) and
\* settings.max_output_tokens
DefaultTemperature == 7
DefaultMaxOutputTokens == 2048

NoResult == [kind |-> "none", text |-> "", cached |-> FALSE, cause |-> ""]

\* The locals of a coroutine, and what it has done in its current call:
\*   posts, n429, last_resp, last_text: outbound POSTs, 429 answers, the
\*   last answer and its text; slept: the retry sleeps;
\*   n_wait, n_get_key, n_cache_set: calls made of Throttler.wait,
\*   KeyManager.get_key and Cache.set_gemini_response.
NewCall ==
    [pc |-> "idle", prompt |-> "p1", use_cache |-> TRUE,
     temperature |-> DefaultTemperature,
     max_output_tokens |-> DefaultMaxOutputTokens,
     attempt |-> 0, sleep_left |-> 0, posts |-> 0, n429 |-> 0,
     last_resp |-> "none", last_text |-> "", slept |-> <<>>,
     result |-> NoResult, n_wait |-> 0, n_get_key |-> 0, n_cache_set |-> 0]

\* max_attempts = len(retry_delays) + 1
MaxAttempts == Len(retry_delays) + 1

\* What the upstream can answer to one POST.
Outcomes ==
    {[kind |-> "text", text |-> t] : t \in Texts}
    \cup {[kind |-> k, text |-> ""] :
            k \in {"empty", "r429", "status", "network", "malformed"}}

\* A retry loop that always sleeps the first delay of the schedule.
RetrySleep_FirstDelay(cr, delay) ==
    [cr EXCEPT !.pc = "retry_sleep", !.sleep_left = retry_delays[1],
               !.slept = Append(@, retry_delays[1])]

\* await asyncio.sleep(delay) inside the retry loop.
RetrySleep(cr, delay) ==
    [cr EXCEPT !.pc = "retry_sleep", !.sleep_left = delay,
               !.slept = Append(@, delay)]

Raise(cr, kind, cause) ==
    [cr EXCEPT !.pc = "done",
               !.result = [kind |-> kind, text |-> "", cached |-> FALSE,
                           cause |-> cause]]

\* A 429 branch that gives up one attempt early.
OnRateLimit_GivesUpEarly(cr) ==
    IF cr.attempt < MaxAttempts - 2
    THEN RetrySleep(cr, retry_delays[cr.attempt + 1])
    ELSE Raise(cr, "RateLimitError", "r429")

\* _call_with_custom_retry, lines 155-166: status 429.
OnRateLimit(cr) ==
    IF cr.attempt < MaxAttempts - 1
    THEN RetrySleep(cr, retry_delays[cr.attempt + 1])
    ELSE Raise(cr, "RateLimitError", "r429")

\* An exception branch that reports exhaustion as a rate limit.
OnException_AsRateLimit(cr, cause) ==
    IF cr.attempt < MaxAttempts - 1
    THEN RetrySleep(cr, retry_delays[cr.attempt + 1])
    ELSE Raise(cr, "RateLimitError", cause)

\* _call_with_custom_retry, lines 174-183: any other exception.
OnException(cr, cause) ==
    IF cr.attempt < MaxAttempts - 1
    THEN RetrySleep(cr, retry_delays[cr.attempt + 1])
    ELSE Raise(cr, "Exception", cause)

\* _call_with_custom_retry, lines 120-142: get_key, then the POST starts.
AfterGetKey(cr, key) ==
    LET cr1 == [cr EXCEPT !.n_get_key = @ + 1]
    IN  IF key = NoKey
        THEN OnException(cr1, "No API keys available")
        ELSE [cr1 EXCEPT !.pc = "posting", !.posts = @ + 1]

\* An acquisition whose cursor update is lost while another call is in
\* flight.
Attempt_LostUpdate(c, cr) ==
    LET gk == get_key(keys, current_index, failed_keys)
        busy == \E d \in DOMAIN call \ {c} : call[d].pc \notin {"idle", "done"}
    IN  /\ current_index' = IF busy THEN current_index ELSE gk.current_index
        /\ failed_keys' = gk.failed_keys
        /\ call' = [call EXCEPT ![c] = AfterGetKey(cr, gk.key)]
        /\ km_op' = KmOp("get_key", gk.key, gk.cleared)
        /\ since_post' = IF gk.key # NoKey THEN 0 ELSE since_post
        /\ UNCHANGED keys

\* An acquisition that marks the key it takes as failed.
Attempt_MarksFailed(c, cr) ==
    LET gk == get_key(keys, current_index, failed_keys)
    IN  /\ current_index' = gk.current_index
        /\ failed_keys' = gk.failed_keys \cup {gk.key}
        /\ call' = [call EXCEPT ![c] = AfterGetKey(cr, gk.key)]
        /\ km_op' = KmOp("get_key", gk.key, gk.cleared)
        /\ since_post' = IF gk.key # NoKey THEN 0 ELSE since_post
        /\ UNCHANGED keys

\* One pass of the retry loop up to its first await.
Attempt(c, cr) ==
    LET gk == get_key(keys, current_index, failed_keys)
    IN  /\ current_index' = gk.current_index
        /\ failed_keys' = gk.failed_keys
        /\ call' = [call EXCEPT ![c] = AfterGetKey(cr, gk.key)]
        /\ km_op' = KmOp("get_key", gk.key, gk.cleared)
        /\ since_post' = IF gk.key # NoKey THEN 0 ELSE since_post
        /\ UNCHANGED keys

\* Throttler.wait, line 48, and the return into the retry loop.
Grant(c, cr) ==
    /\ elapsed' = 0
    /\ write_bit' = ~write_bit
    /\ Attempt(c, cr)

\* Throttler.wait, lines 35-48, entered with the lock held.
Locked(c, cr, required_delay) ==
    LET wt == WaitTime(elapsed, required_delay)
    IN  IF wt > 0
        THEN /\ lock_owner' = c
             /\ call' = [call EXCEPT ![c] =
                           [cr EXCEPT !.pc = "throttle_sleep",
                                      !.sleep_left = wt]]
             /\ UNCHANGED <<elapsed, write_bit, since_post, kmVars>>
        ELSE /\ lock_owner' = NoCaller
             /\ Grant(c, cr)

\* Throttler.wait, line 34: async with self._lock.
ThrottlerWait(c, cr, required_delay) ==
    LET cr1 == [cr EXCEPT !.n_wait = @ + 1]
    IN  IF LockFree
        THEN /\ Locked(c, cr1, required_delay)
             /\ UNCHANGED lock_waiters
        ELSE /\ lock_waiters' = Append(lock_waiters, c)
             /\ call' = [call EXCEPT ![c] = [cr1 EXCEPT !.pc = "lock_wait"]]
             /\ UNCHANGED <<elapsed, write_bit, lock_owner, since_post,
                            kmVars>>

\* A cache hit that still takes a pacing slot.
CacheHit_Paced(c, cr, cached) ==
    /\ call' = [call EXCEPT ![c] =
                  [cr EXCEPT !.pc = "done", !.n_wait = 1,
                             !.result = [kind |-> "response",
                                         text |-> cached.text,
                                         cached |-> TRUE, cause |-> ""]]]
    /\ elapsed' = 0
    /\ write_bit' = ~write_bit
    /\ UNCHANGED <<lock_owner, lock_waiters, kmVars, since_post>>

\* call_with_retry, lines 72-77: the cache hit.
CacheHit(c, cr, cached) ==
    /\ call' = [call EXCEPT ![c] =
                  IF cached.type = "dict"
                  THEN [cr EXCEPT !.pc = "done",
                                  !.result = [kind |-> "response",
                                              text |-> cached.text,
                                              cached |-> TRUE, cause |-> ""]]
                  ELSE Raise(cr, "TypeError", "cached['text']")]
    /\ UNCHANGED <<thVars, kmVars, since_post>>

\* call_with_retry that looks the prompt up whatever use_cache says.
StartWith_AlwaysReads(c, p, temp, tokens, uc, required_delay, limit) ==
    /\ call[c].pc \in {"idle", "done"}
    /\ calls_started < limit
    /\ calls_started' = calls_started + 1
    /\ LET cr     == [NewCall EXCEPT !.prompt = p, !.use_cache = uc,
                                      !.temperature = temp,
                                      !.max_output_tokens = tokens]
           cached == get_gemini_response(p)
       IN  IF Truthy(cached)
           THEN CacheHit(c, cr, cached)
           ELSE ThrottlerWait(c, cr, required_delay)
    /\ UNCHANGED <<cacheVars, retry_delays, logVars>>

\* call_with_retry(p, temp, tokens, uc) up to its first await.
StartWith(c, p, temp, tokens, uc, required_delay, limit) ==
    /\ call[c].pc \in {"idle", "done"}
    /\ calls_started < limit
    /\ calls_started' = calls_started + 1
    /\ LET cr     == [NewCall EXCEPT !.prompt = p, !.use_cache = uc,
                                      !.temperature = temp,
                                      !.max_output_tokens = tokens]
           cached == IF uc THEN get_gemini_response(p) ELSE Absent
       IN  IF Truthy(cached)
           THEN CacheHit(c, cr, cached)
           ELSE ThrottlerWait(c, cr, required_delay)
    /\ UNCHANGED <<cacheVars, retry_delays, logVars>>

\* call_with_retry(p, use_cache=uc) up to its first await.
Start(c, p, uc, required_delay, limit) ==
    StartWith(c, p, DefaultTemperature, DefaultMaxOutputTokens, uc,
              required_delay, limit)

\* Throttler.wait resumes with the lock after queueing for it.
LockWake(c, required_delay) ==
    /\ call[c].pc = "lock_wait"
    /\ lock_owner = NoCaller
    /\ lock_waiters # <<>> /\ Head(lock_waiters) = c
    /\ lock_waiters' = Tail(lock_waiters)
    /\ Locked(c, call[c], required_delay)
    /\ UNCHANGED <<cacheVars, retry_delays, calls_started, logVars>>

\* A wait() that returns without releasing its lock.
ThrottleWake_KeepsLock(c) ==
    /\ call[c].pc = "throttle_sleep"
    /\ call[c].sleep_left = 0
    /\ lock_owner' = lock_owner
    /\ Grant(c, call[c])
    /\ UNCHANGED <<lock_waiters, cacheVars, retry_delays, calls_started,
                   logVars>>

\* Throttler.wait resumes from asyncio.sleep(wait_time).
ThrottleWake(c) ==
    /\ call[c].pc = "throttle_sleep"
    /\ call[c].sleep_left = 0
    /\ lock_owner' = NoCaller
    /\ Grant(c, call[c])
    /\ UNCHANGED <<lock_waiters, cacheVars, retry_delays, calls_started,
                   logVars>>

\* call_with_retry, lines 89-94: cache the text and return it.
Return(c, cr, text) ==
    LET wr == set_gemini_response(cr.prompt, DictValue(text))
        caching == cr.use_cache /\ text # ""
    IN  /\ memory_cache' = IF caching THEN wr.memory ELSE memory_cache
        /\ redis_store' = IF caching THEN wr.redis ELSE redis_store
        /\ call' = [call EXCEPT ![c] =
                      [cr EXCEPT !.pc = "done",
                                 !.n_cache_set = IF caching THEN @ + 1 ELSE @,
                                 !.result = [kind |-> "response",
                                             text |-> text, cached |-> FALSE,
                                             cause |-> ""]]]

\* An empty answer treated as a failure to retry.
OnEmpty_Retries(c, cr) ==
    /\ call' = [call EXCEPT ![c] = OnException(cr, "empty")]
    /\ UNCHANGED <<memory_cache, redis_store>>

\* _call_with_custom_retry, lines 148-150: a 200 answer with no text.
OnEmpty(c, cr) == Return(c, cr, FallbackText)

\* A completion that caches the fallback string when the call fails.
Response_CachesFailure(c, o) ==
    /\ call[c].pc = "posting"
    /\ LET cr == [call[c] EXCEPT
                    !.last_resp = o.kind, !.last_text = o.text,
                    !.n429 = IF o.kind = "r429" THEN @ + 1 ELSE @]
           failed(new) ==
               /\ call' = [call EXCEPT ![c] = new]
               /\ IF new.pc = "done" /\ cr.use_cache
                  THEN LET wr == set_gemini_response(
                                     cr.prompt, DictValue(FallbackText))
                       IN  /\ memory_cache' = wr.memory
                           /\ redis_store' = wr.redis
                  ELSE UNCHANGED <<memory_cache, redis_store>>
       IN  CASE o.kind = "text"  -> Return(c, cr, o.text)
             [] o.kind = "empty" -> OnEmpty(c, cr)
             [] o.kind = "r429"  -> failed(OnRateLimit(cr))
             [] OTHER            -> failed(OnException(cr, o.kind))
    /\ UNCHANGED <<kmVars, thVars, since_post, redis_client, retry_delays,
                   calls_started, logVars, cache_op, written>>

\* A completion that stamps last_request_time when the POST ends.
Response_StampsCompletion(c, o) ==
    /\ call[c].pc = "posting"
    /\ LET cr == [call[c] EXCEPT
                    !.last_resp = o.kind, !.last_text = o.text,
                    !.n429 = IF o.kind = "r429" THEN @ + 1 ELSE @]
       IN  CASE o.kind = "text"  -> Return(c, cr, o.text)
             [] o.kind = "empty" -> OnEmpty(c, cr)
             [] o.kind = "r429"  ->
                    /\ call' = [call EXCEPT ![c] = OnRateLimit(cr)]
                    /\ UNCHANGED <<memory_cache, redis_store>>
             [] OTHER ->
                    /\ call' = [call EXCEPT ![c] = OnException(cr, o.kind)]
                    /\ UNCHANGED <<memory_cache, redis_store>>
    /\ elapsed' = 0
    /\ write_bit' = ~write_bit
    /\ UNCHANGED <<kmVars, lock_owner, lock_waiters, since_post,
                   redis_client, retry_delays, calls_started, logVars,
                   cache_op, written>>

\* The POST of _call_with_custom_retry completes.
Response(c, o) ==
    /\ call[c].pc = "posting"
    /\ LET cr == [call[c] EXCEPT
                    !.last_resp = o.kind, !.last_text = o.text,
                    !.n429 = IF o.kind = "r429" THEN @ + 1 ELSE @]
       IN  CASE o.kind = "text"  -> Return(c, cr, o.text)
             [] o.kind = "empty" -> OnEmpty(c, cr)
             [] o.kind = "r429"  ->
                    /\ call' = [call EXCEPT ![c] = OnRateLimit(cr)]
                    /\ UNCHANGED <<memory_cache, redis_store>>
             [] OTHER ->
                    /\ call' = [call EXCEPT ![c] = OnException(cr, o.kind)]
                    /\ UNCHANGED <<memory_cache, redis_store>>
    /\ UNCHANGED <<kmVars, thVars, since_post, redis_client, retry_delays,
                   calls_started, logVars, cache_op, written>>

\* A retry loop that counts only its 429 answers as attempts.
RetryWake_Counts429Only(c) ==
    /\ call[c].pc = "retry_sleep"
    /\ call[c].sleep_left = 0
    /\ LET cr == [call[c] EXCEPT
                    !.attempt = IF call[c].last_resp = "r429"
                                THEN @ + 1 ELSE @]
       IN  IF cr.attempt < MaxAttempts
           THEN Attempt(c, cr)
           ELSE /\ call' = [call EXCEPT ![c] =
                              Raise(cr, "Exception", "Maximum retries exceeded")]
                /\ UNCHANGED <<kmVars, since_post>>
    /\ UNCHANGED <<thVars, cacheVars, retry_delays, calls_started, logVars>>

\* A retry that takes a pacing slot of its own.
RetryWake_Paced(c) ==
    /\ call[c].pc = "retry_sleep"
    /\ call[c].sleep_left = 0
    /\ LET cr == [call[c] EXCEPT !.attempt = @ + 1]
       IN  IF cr.attempt < MaxAttempts
           THEN Attempt(c, cr)
           ELSE /\ call' = [call EXCEPT ![c] =
                              Raise(cr, "Exception", "Maximum retries exceeded")]
                /\ UNCHANGED <<kmVars, since_post>>
    /\ elapsed' = 0
    /\ write_bit' = ~write_bit
    /\ UNCHANGED <<lock_owner, lock_waiters, cacheVars, retry_delays,
                   calls_started, logVars>>

\* _call_with_custom_retry resumes from asyncio.sleep(delay).
RetryWake(c) ==
    /\ call[c].pc = "retry_sleep"
    /\ call[c].sleep_left = 0
    /\ LET cr == [call[c] EXCEPT !.attempt = @ + 1]
       IN  IF cr.attempt < MaxAttempts
           THEN Attempt(c, cr)
           ELSE /\ call' = [call EXCEPT ![c] =
                              Raise(cr, "Exception", "Maximum retries exceeded")]
                /\ UNCHANGED <<kmVars, since_post>>
    /\ UNCHANGED <<thVars, cacheVars, retry_delays, calls_started, logVars>>

\* One second passes.
Tick ==
    /\ elapsed' = Later(elapsed)
    /\ since_post' = Later(since_post)
    /\ call' = [c \in DOMAIN call |->
                  IF call[c].sleep_left > 0
                  THEN [call[c] EXCEPT !.sleep_left = @ - 1]
                  ELSE call[c]]
    /\ redis_store' = [k \in DOMAIN redis_store |->
                         IF redis_store[k].ttl > 0
                         THEN [redis_store[k] EXCEPT !.ttl = @ - 1]
                         ELSE redis_store[k]]
    /\ written' = [k \in DOMAIN written |->
                     IF written[k].left > 0
                     THEN [written[k] EXCEPT !.left = @ - 1]
                     ELSE written[k]]
    /\ UNCHANGED <<kmVars, write_bit, lock_owner, lock_waiters, redis_client,
                   memory_cache, retry_delays, calls_started, logVars,
                   cache_op>>

----------------------------------------------------------------------------
\* Configurations.

\* settings.retry_delays: the default schedule.
DefaultRetryDelays == <<3, 8, 20, 45>>

\* A configured retry schedule of n delays.
RetrySchedule(n) == SubSeq(DefaultRetryDelays, 1, n)

KeyConfigs == {<<>>, <<"k1", "k2">>}

EmptyMap == [k \in {} |-> Absent]

InitCommon ==
    /\ current_index = 0
    /\ failed_keys = {}
    /\ elapsed = NoTime
    /\ write_bit = FALSE
    /\ lock_owner = NoCaller
    /\ lock_waiters = <<>>
    /\ memory_cache = EmptyMap
    /\ redis_store = EmptyMap
    /\ calls_started = 0
    /\ since_post = NoTime
    /\ key_log = <<>>
    /\ log_cursor = 0
    /\ log_prev = NoKey
    /\ km_op = NoOp
    /\ cache_op = NoCacheOp
    /\ written = [k \in {} |-> [value |-> "", ttl |-> 0, left |-> 0]]

\* One client, its calls made one after the other.
Init ==
    /\ InitCommon
    /\ call = [c \in {1} |-> NewCall]
    /\ keys \in {KeyManagerInit(ks) : ks \in KeyConfigs}
    /\ redis_client \in BOOLEAN
    /\ retry_delays \in {RetrySchedule(n) : n \in 0..MaxRetries}

\* The steps of the client, for prompts ps, use_cache flags ucs, upstream
\* answers os and at most limit calls.
Step(ps, ucs, os, limit) ==
    \/ \E c \in DOMAIN call, p \in ps, uc \in ucs,
          d \in MinDelay..MaxDelay : Start(c, p, uc, d, limit)
    \/ \E c \in DOMAIN call : ThrottleWake(c)
    \/ \E c \in DOMAIN call, o \in os : Response(c, o)
    \/ \E c \in DOMAIN call : RetryWake(c)
    \/ Tick

Next == Step(Prompts, BOOLEAN, Outcomes, MaxCalls)

Spec == Init /\ [][Next]_vars

\* Throttler.reset
Reset ==
    /\ elapsed' = NoTime
    /\ write_bit' = ~write_bit
    /\ UNCHANGED <<kmVars, lock_owner, lock_waiters, cacheVars, retry_delays,
                   call, calls_started, since_post, logVars>>

\* The client with its calls made one after the other, each of them going
\* through Throttler.wait, and reset() called on its throttler at any moment.
NextThrottler ==
    \/ Step({"p1"}, {FALSE}, Outcomes, MaxCalls)
    \/ Reset

SpecThrottler == Init /\ [][NextThrottler]_vars

\* One client, calls in flight concurrently.
InitConcurrent ==
    /\ InitCommon
    /\ call = [c \in 1..NumCallers |-> NewCall]
    /\ keys = KeyManagerInit(<<"k1", "k2">>)
    /\ redis_client = FALSE
    /\ retry_delays = RetrySchedule(1)

\* The answers the concurrent runs draw from: a text, a 429, a failure.
ConcurrentOutcomes ==
    {o \in Outcomes : o.kind \in {"r429", "network"} \/ o.text = "t1"}

NextConcurrent ==
    \/ Step({"p1"}, {TRUE}, ConcurrentOutcomes, NumCallers + 1)
    \/ \E c \in DOMAIN call, d \in MinDelay..MaxDelay : LockWake(c, d)

SpecConcurrent == InitConcurrent /\ [][NextConcurrent]_vars

\* The event loop runs every coroutine that is ready, and time passes.
Fairness ==
    /\ WF_vars(Tick)
    /\ \A c \in 1..NumCallers :
          /\ WF_vars(ThrottleWake(c))
          /\ WF_vars(\E d \in MinDelay..MaxDelay : LockWake(c, d))

SpecFair == SpecConcurrent /\ Fairness

----------------------------------------------------------------------------
\* KeyManager used on its own.

KeyPool == <<"k1", "k2", "k3", "k4", "k5">>

\* The configured lists: n keys, and lists with blank entries among them.
ApiKeyConfigs ==
    {SubSeq(KeyPool, 1, n) : n \in 0..MaxKeys}
    \cup {<<" ">>, <<"", "k1", " ", "k2">>}

\* What mark_failed is called with: a configured key or a foreign one.
MarkableKeys == {KeyPool[i] : i \in 1..MaxKeys} \cup {"kx"}

\* The key the last get_key returned.
LastLogged == IF key_log # <<>> THEN key_log[Len(key_log)] ELSE log_prev

\* KeyManager.get_stats
get_stats(ks, failed) ==
    [total_keys     |-> Len(ks),
     available_keys |-> Len(SelectSeq(ks, LAMBDA k : k \notin failed)),
     failed_keys    |-> Cardinality(failed)]

\* key = key_manager.get_key()
KmGetKey ==
    /\ Len(key_log) < MaxLog
    /\ LET gk      == get_key(keys, current_index, failed_keys)
           restart == key_log = <<>> \/ gk.failed_keys # failed_keys
       IN  /\ current_index' = gk.current_index
           /\ failed_keys' = gk.failed_keys
           /\ key_log' = IF restart THEN <<gk.key>>
                          ELSE Append(key_log, gk.key)
           /\ log_cursor' = IF restart THEN current_index ELSE log_cursor
           /\ log_prev' = IF restart THEN LastLogged ELSE log_prev
           /\ km_op' = KmOp("get_key", gk.key, gk.cleared)
    /\ UNCHANGED <<keys, thVars, cacheVars, retry_delays, call, calls_started,
                   since_post>>

\* get_random_key that draws from the whole pool.
get_random_key_AnyKey(ks, failed) ==
    [choices     |-> IF ks = <<>> THEN {NoKey} ELSE KeySet(ks),
     failed_keys |-> IF Available(ks, failed) = <<>> THEN {} ELSE failed,
     cleared     |-> Available(ks, failed) = <<>>]

\* KeyManager.get_random_key: the keys it may return (NoKey for None) and
\* the failed set it leaves.
get_random_key(ks, failed) ==
    LET unfailed  == Available(ks, failed)
        available == IF unfailed = <<>> THEN ks ELSE unfailed
    IN  [choices     |-> IF available = <<>> THEN {NoKey}
                         ELSE {available[i] : i \in 1..Len(available)},
         failed_keys |-> IF unfailed = <<>> THEN {} ELSE failed,
         cleared     |-> unfailed = <<>>]

\* get_random_key that moves the round-robin cursor as get_key does.
KmGetRandomKey_Rotates ==
    /\ LET r == get_random_key(keys, failed_keys)
       IN  /\ failed_keys' = r.failed_keys
           /\ key_log' = <<>>
           /\ log_prev' = LastLogged
           /\ \E k \in r.choices :
                 km_op' = KmOp("get_random_key", k, r.cleared)
    /\ current_index' = IF keys = <<>> THEN current_index
                        ELSE (current_index + 1) % Len(keys)
    /\ UNCHANGED <<keys, log_cursor, thVars, cacheVars,
                   retry_delays, call, calls_started, since_post>>

\* key = key_manager.get_random_key()
KmGetRandomKey ==
    /\ LET r == get_random_key(keys, failed_keys)
       IN  /\ failed_keys' = r.failed_keys
           /\ key_log' = IF r.failed_keys # failed_keys THEN <<>> ELSE key_log
           /\ log_prev' = IF r.failed_keys # failed_keys THEN LastLogged
                          ELSE log_prev
           /\ \E k \in r.choices :
                 km_op' = KmOp("get_random_key", k, r.cleared)
    /\ UNCHANGED <<keys, current_index, log_cursor, thVars, cacheVars,
                   retry_delays, call, calls_started, since_post>>

\* mark_failed that toggles the mark.
mark_failed_Toggle(failed, k) ==
    IF k \in failed THEN failed \ {k} ELSE failed \cup {k}

\* KeyManager.mark_failed: self.failed_keys.add(key)
mark_failed(failed, k) == failed \cup {k}

\* key_manager.mark_failed(k)
KmMarkFailed(k) ==
    /\ failed_keys' = mark_failed(failed_keys, k)
    /\ key_log' = <<>>
    /\ log_prev' = LastLogged
    /\ km_op' = KmOp("mark_failed", k, FALSE)
    /\ UNCHANGED <<keys, current_index, log_cursor, thVars, cacheVars,
                   retry_delays, call, calls_started, since_post>>

\* reset_failures that also rewinds the rotation.
KmResetFailures_Rewinds ==
    /\ failed_keys' = {}
    /\ current_index' = 0
    /\ key_log' = <<>>
    /\ log_prev' = LastLogged
    /\ km_op' = KmOp("reset_failures", NoKey, FALSE)
    /\ UNCHANGED <<keys, log_cursor, thVars, cacheVars,
                   retry_delays, call, calls_started, since_post>>

\* KeyManager.reset_failures
KmResetFailures ==
    /\ failed_keys' = {}
    /\ key_log' = <<>>
    /\ log_prev' = LastLogged
    /\ km_op' = KmOp("reset_failures", NoKey, FALSE)
    /\ UNCHANGED <<keys, current_index, log_cursor, thVars, cacheVars,
                   retry_delays, call, calls_started, since_post>>

InitKeys ==
    /\ InitCommon
    /\ call = [c \in {1} |-> NewCall]
    /\ keys \in {KeyManagerInit(ks) : ks \in ApiKeyConfigs}
    /\ redis_client = FALSE
    /\ retry_delays = <<>>

NextKeys ==
    \/ KmGetKey
    \/ KmGetRandomKey
    \/ \E k \in MarkableKeys : KmMarkFailed(k)
    \/ KmResetFailures

SpecKeys == InitKeys /\ [][NextKeys]_vars

----------------------------------------------------------------------------
\* Cache used on its own.

CacheKeys   == {<<"ns", ":", "x">>, <<"ot", ":", "x">>}
CacheValues == {"v1", "v2"}

\* cache.set(key, value, ttl) with a string value
CSet(key, value, ttl) ==
    LET wr == CacheSet(key, StrValue(value), ttl)
    IN  /\ memory_cache' = wr.memory
        /\ redis_store' = wr.redis
        /\ cache_op' = CacheOp("set", key, value, ttl, Absent, 0)
        /\ written' = Put(written, key,
                          [value |-> value, ttl |-> ttl, left |-> ttl])
        /\ UNCHANGED <<kmVars, thVars, redis_client, retry_delays, call,
                       calls_started, since_post, logVars>>

\* cache.get(key)
CGet(key) ==
    /\ cache_op' = CacheOp("get", key, "", 0, CacheGet(key), 0)
    /\ UNCHANGED <<kmVars, thVars, redis_client, memory_cache, redis_store,
                   written, retry_delays, call, calls_started, since_post,
                   logVars>>

InitCache ==
    /\ InitCommon
    /\ call = [c \in {1} |-> NewCall]
    /\ keys = <<>>
    /\ redis_client \in BOOLEAN
    /\ retry_delays = <<>>

NextCache ==
    \/ \E k \in CacheKeys, v \in CacheValues, ttl \in 1..MaxTtl :
          CSet(k, v, ttl)
    \/ \E k \in CacheKeys : CGet(k)
    \/ Tick

SpecCache == InitCache /\ [][NextCache]_vars

----------------------------------------------------------------------------
\* The client called with generation parameters of the caller's choice.

Temperatures == {2, DefaultTemperature}
TokenLimits  == {256, DefaultMaxOutputTokens}

ParamOutcomes == {o \in Outcomes : o.kind \in {"text", "r429"}}

\* No retry schedule: a failed attempt ends the call.
InitParams ==
    /\ InitCommon
    /\ call = [c \in {1} |-> NewCall]
    /\ keys = KeyManagerInit(<<"k1", "k2">>)
    /\ redis_client \in BOOLEAN
    /\ retry_delays = <<>>

NextParams ==
    \/ \E c \in DOMAIN call, temp \in Temperatures, tokens \in TokenLimits,
          uc \in BOOLEAN, d \in MinDelay..MaxDelay :
          StartWith(c, "p1", temp, tokens, uc, d, MaxCalls)
    \/ \E c \in DOMAIN call : ThrottleWake(c)
    \/ \E c \in DOMAIN call, o \in ParamOutcomes : Response(c, o)
    \/ Tick

SpecParams == InitParams /\ [][NextParams]_vars

----------------------------------------------------------------------------
\* The client while other code marks keys of its KeyManager as failed.

MarkedKeys == {"k1", "k2", "kx"}

MarkedOutcomes == {o \in Outcomes : o.kind = "r429" \/ o.text = "t1"}

InitMarked ==
    /\ InitCommon
    /\ call = [c \in {1} |-> NewCall]
    /\ keys = KeyManagerInit(<<"k1", "k2">>)
    /\ redis_client = FALSE
    /\ retry_delays = RetrySchedule(1)

NextMarked ==
    \/ Step({"p1"}, {FALSE}, MarkedOutcomes, MaxCalls)
    \/ \E k \in MarkedKeys : KmMarkFailed(k)

SpecMarked == InitMarked /\ [][NextMarked]_vars

----------------------------------------------------------------------------
\* Calls abandoned by their caller: CancelledError is raised at the await
\* the call is suspended in. It is no Exception, so the retry loop's
\* handlers let it through; "async with" releases the lock on the way out.

Suspended == {"lock_wait", "throttle_sleep", "posting", "retry_sleep"}

RECURSIVE Without(_, _)
Without(q, c) ==
    IF q = <<>> THEN <<>>
    ELSE IF Head(q) = c THEN Without(Tail(q), c)
    ELSE <<Head(q)>> \o Without(Tail(q), c)

\* A cancellation that leaves the lock with the cancelled call.
Cancel_KeepsLock(c) ==
    /\ call[c].pc \in Suspended
    /\ call' = [call EXCEPT ![c] = Raise(call[c], "CancelledError", "")]
    /\ lock_waiters' = Without(lock_waiters, c)
    /\ UNCHANGED <<kmVars, elapsed, write_bit, lock_owner, since_post,
                   cacheVars, retry_delays, calls_started, logVars>>

\* A cancellation that undoes the call's acquisition and its grant.
Cancel_RollsBack(c) ==
    /\ call[c].pc \in Suspended
    /\ call' = [call EXCEPT ![c] = Raise(call[c], "CancelledError", "")]
    /\ lock_waiters' = Without(lock_waiters, c)
    /\ lock_owner' = IF lock_owner = c THEN NoCaller ELSE lock_owner
    /\ current_index' = IF call[c].n_get_key > 0
                         THEN (current_index + Len(keys) - 1) % Len(keys)
                         ELSE current_index
    /\ elapsed' = IF call[c].n_get_key > 0 THEN NoTime ELSE elapsed
    /\ UNCHANGED <<keys, failed_keys, km_op, write_bit, since_post,
                   cacheVars, retry_delays, calls_started, logVars>>

\* The caller's deadline elapses while call c is suspended.
Cancel(c) ==
    /\ call[c].pc \in Suspended
    /\ call' = [call EXCEPT ![c] = Raise(call[c], "CancelledError", "")]
    /\ lock_waiters' = Without(lock_waiters, c)
    /\ lock_owner' = IF lock_owner = c THEN NoCaller ELSE lock_owner
    /\ UNCHANGED <<kmVars, elapsed, write_bit, since_post, cacheVars,
                   retry_delays, calls_started, logVars>>

NextCancel ==
    \/ NextConcurrent
    \/ \E c \in DOMAIN call : Cancel(c)

SpecCancel == InitConcurrent /\ [][NextCancel]_vars

\* Callers of wait() that may be cancelled, with the event loop running
\* every ready coroutine; no retry schedule, every POST answered.
InitSleepers ==
    /\ InitCommon
    /\ call = [c \in 1..NumCallers |-> NewCall]
    /\ keys = KeyManagerInit(<<"k1", "k2">>)
    /\ redis_client = FALSE
    /\ retry_delays = <<>>

SleeperOutcomes == {o \in Outcomes : o.text = "t1"}

NextSleepers ==
    \/ \E c \in DOMAIN call, d \in MinDelay..MaxDelay :
          Start(c, "p1", FALSE, d, NumCallers + 1)
    \/ \E c \in DOMAIN call, d \in MinDelay..MaxDelay : LockWake(c, d)
    \/ \E c \in DOMAIN call : ThrottleWake(c)
    \/ \E c \in DOMAIN call, o \in SleeperOutcomes : Response(c, o)
    \/ \E c \in DOMAIN call : Cancel(c)
    \/ Tick

SpecSleepers == InitSleepers /\ [][NextSleepers]_vars /\ Fairness

----------------------------------------------------------------------------
\* One call after the other with the event loop running and the upstream
\* answering every POST (httpx gives up after its timeout).

RetryOutcomes == {o \in Outcomes : o.kind \in {"r429", "network"}
                                     \/ o.text = "t1"}

NextRetry == Step({"p1"}, {FALSE}, RetryOutcomes, MaxCalls)

FairnessRetry ==
    /\ WF_vars(Tick)
    /\ WF_vars(ThrottleWake(1))
    /\ WF_vars(RetryWake(1))
    /\ WF_vars(\E o \in RetryOutcomes : Response(1, o))

SpecRetry == Init /\ [][NextRetry]_vars /\ FairnessRetry

----------------------------------------------------------------------------
\* Concurrent calls with one prompt and use_cache, on either backend, every
\* POST answered with a text.

RaceOutcomes == {o \in Outcomes : o.kind = "text"}

InitRace ==
    /\ InitCommon
    /\ call = [c \in 1..NumCallers |-> NewCall]
    /\ keys = KeyManagerInit(<<"k1", "k2">>)
    /\ redis_client \in BOOLEAN
    /\ retry_delays = <<>>

NextRace ==
    \/ \E c \in DOMAIN call, d \in MinDelay..MaxDelay :
          Start(c, "p1", TRUE, d, NumCallers + 1)
    \/ \E c \in DOMAIN call, d \in MinDelay..MaxDelay : LockWake(c, d)
    \/ \E c \in DOMAIN call : ThrottleWake(c)
    \/ \E c \in DOMAIN call, o \in RaceOutcomes : Response(c, o)
    \/ Tick

SpecRace == InitRace /\ [][NextRace]_vars

----------------------------------------------------------------------------
\* Cache.delete and Cache.clear_pattern.

\* Keys in and out of the namespace "ns:", one of them holding the text
\* "ns:" further inside.
PatternKeys ==
    {<<"ns", ":", "x">>, <<"ns", ":", "y">>, <<"ot", ":", "x">>,
     <<"zz", ":", "ns", ":", "x">>}

\* The patterns "ns:*" and "ot:*".
Patterns == {<<"ns", ":", "*">>, <<"ot", ":", "*">>}

\* cache.delete(key)
CDelete(key) ==
    LET r == CacheDelete(key)
    IN  /\ memory_cache' = r.memory
        /\ redis_store' = r.redis
        /\ cache_op' = CacheOp("delete", key, "", 0, Absent, 0)
        /\ written' = Remove(written, {key})
        /\ UNCHANGED <<kmVars, thVars, redis_client, retry_delays, call,
                       calls_started, since_post, logVars>>

\* cache.clear_pattern(pattern)
CClear(pattern) ==
    LET r == CacheClearPattern(pattern)
    IN  /\ memory_cache' = r.memory
        /\ redis_store' = r.redis
        /\ cache_op' = CacheOp("clear", pattern, "", 0, Absent, r.count)
        /\ written' = Remove(written, DOMAIN written \
                                         (DOMAIN r.memory \cup DOMAIN r.redis))
        /\ UNCHANGED <<kmVars, thVars, redis_client, retry_delays, call,
                       calls_started, since_post, logVars>>

\* The connection attempt of Cache.__init__: the redis module missing, the
\* client creation raising, the ping raising, or all of it working.
ConnectOutcomes == {"no_module", "create_raises", "ping_raises", "ok"}

\* __init__ that keeps the client whose ping failed.
CacheInit_KeepsClient(outcome) == outcome \in {"ok", "ping_raises"}

\* Cache.__init__: redis_client is not None afterwards.
CacheInit(outcome) == outcome = "ok"

InitPattern ==
    /\ InitCommon
    /\ call = [c \in {1} |-> NewCall]
    /\ keys = <<>>
    /\ redis_client \in {CacheInit(o) : o \in ConnectOutcomes}
    /\ retry_delays = <<>>

NextPattern ==
    \/ \E k \in PatternKeys : CSet(k, "v1", CacheTtl)
    \/ \E k \in PatternKeys : CGet(k)
    \/ \E k \in PatternKeys : CDelete(k)
    \/ \E p \in Patterns : CClear(p)

SpecPattern == InitPattern /\ [][NextPattern]_vars

----------------------------------------------------------------------------
\* Cache operations whose backend call may raise: on Redis before the
\* command reaches the server or after the server has applied it, on the
\* in-memory dict before anything is changed.

Faults == {"none", "before", "after"}

\* True / False as a method returns it
BoolValue(b) == [type |-> "bool", text |-> IF b THEN "True" ELSE "False"]

\* What the server holds after a command that raised
RedisAfterFault(fault, applied) ==
    IF redis_client /\ fault = "after" THEN applied ELSE redis_store

\* A set that stores in memory what Redis refused.
FaultySet_FallsBackToMemory(key, value, ttl, fault) ==
    IF fault = "none" THEN CacheSet(key, value, ttl)
    ELSE [ok |-> FALSE, memory |-> Put(memory_cache, key, value),
          redis |-> RedisAfterFault(fault, CacheSet(key, value, ttl).redis)]

\* Cache.set, lines 58-70
FaultySet(key, value, ttl, fault) ==
    IF fault = "none" THEN CacheSet(key, value, ttl)
    ELSE [ok |-> FALSE, memory |-> memory_cache,
          redis |-> RedisAfterFault(fault, CacheSet(key, value, ttl).redis)]

\* Cache.get, lines 47-55
FaultyGet(key, fault) == IF fault = "none" THEN CacheGet(key) ELSE Absent

\* Cache.delete, lines 74-82
FaultyDelete(key, fault) ==
    IF fault = "none"
    THEN [ok |-> TRUE, memory |-> CacheDelete(key).memory,
          redis |-> CacheDelete(key).redis]
    ELSE [ok |-> FALSE, memory |-> memory_cache,
          redis |-> RedisAfterFault(fault, CacheDelete(key).redis)]

\* Cache.clear_pattern, lines 86-101
FaultyClear(pattern, fault) ==
    IF fault = "none" THEN CacheClearPattern(pattern)
    ELSE [memory |-> memory_cache,
          redis |-> RedisAfterFault(fault, CacheClearPattern(pattern).redis),
          count |-> 0]

FaultOp(op, key, result, count, fault) ==
    [CacheOp(op, key, "", 0, result, count) EXCEPT !.fault = fault]

\* cache.set(key, value)
FSet(key, value, fault) ==
    LET wr == FaultySet(key, StrValue(value), CacheTtl, fault)
    IN  /\ memory_cache' = wr.memory
        /\ redis_store' = wr.redis
        /\ cache_op' = FaultOp("set", key, BoolValue(wr.ok), 0, fault)
        /\ UNCHANGED <<kmVars, thVars, redis_client, written, retry_delays,
                       call, calls_started, since_post, logVars>>

\* cache.get(key)
FGet(key, fault) ==
    /\ cache_op' = FaultOp("get", key, FaultyGet(key, fault), 0, fault)
    /\ UNCHANGED <<kmVars, thVars, redis_client, memory_cache, redis_store,
                   written, retry_delays, call, calls_started, since_post,
                   logVars>>

\* cache.delete(key)
FDelete(key, fault) ==
    LET r == FaultyDelete(key, fault)
    IN  /\ memory_cache' = r.memory
        /\ redis_store' = r.redis
        /\ cache_op' = FaultOp("delete", key, BoolValue(r.ok), 0, fault)
        /\ UNCHANGED <<kmVars, thVars, redis_client, written, retry_delays,
                       call, calls_started, since_post, logVars>>

\* cache.clear_pattern(pattern)
FClear(pattern, fault) ==
    LET r == FaultyClear(pattern, fault)
    IN  /\ memory_cache' = r.memory
        /\ redis_store' = r.redis
        /\ cache_op' = FaultOp("clear", pattern, Absent, r.count, fault)
        /\ UNCHANGED <<kmVars, thVars, redis_client, written, retry_delays,
                       call, calls_started, since_post, logVars>>

NextFaulty ==
    \/ \E k \in CacheKeys, v \in CacheValues, f \in Faults : FSet(k, v, f)
    \/ \E k \in CacheKeys, f \in Faults : FGet(k, f)
    \/ \E k \in CacheKeys, f \in Faults : FDelete(k, f)
    \/ \E p \in Patterns, f \in Faults : FClear(p, f)

SpecFaulty == InitPattern /\ [][NextFaulty]_vars

----------------------------------------------------------------------------
\* The session methods of Cache.

Sessions     == {"s1", "s2"}
SynthSteps   == {"st1", "st2"}
AnalysisKeys == {"ck1"}
SessionData  == {"d1"}

NoData == "none"

\* json.dumps(data)
JsonDumps(data) ==
    CASE data = "d1" -> "{d1}"
      [] data = "d2" -> "{d2}"
      [] OTHER       -> "null"

\* json.loads(text), None when it raises JSONDecodeError
JsonLoads(text) ==
    CASE text = "{d1}" -> "d1"
      [] text = "{d2}" -> "d2"
      [] OTHER         -> NoData

\* Cache._make_cache_key(prefix, session_id, name)
make_cache_key(prefix, session_id, name) ==
    <<prefix, ":", session_id, ":", name>>

\* get_synthesis / get_analysis: the parsed entry, or None
GetParsed(key) ==
    LET cached == CacheGet(key)
    IN  IF Truthy(cached) THEN JsonLoads(cached.text) ELSE NoData

get_synthesis(session_id, step) ==
    GetParsed(make_cache_key("synthesis", session_id, step))

get_analysis(session_id, cache_key) ==
    GetParsed(make_cache_key("analysis", session_id, cache_key))

\* f"synthesis:{session_id}:*"
SessionPattern(session_id) == <<"synthesis", ":", session_id, ":", "*">>

\* cache.set_synthesis(session_id, step, data) and
\* cache.store_analysis(session_id, cache_key, data)
SetEntry(op, prefix, session_id, name, data) ==
    LET key == make_cache_key(prefix, session_id, name)
        wr  == CacheSet(key, StrValue(JsonDumps(data)), CacheTtl)
    IN  /\ memory_cache' = wr.memory
        /\ redis_store' = wr.redis
        /\ cache_op' = CacheOp(op, key, JsonDumps(data), CacheTtl, Absent, 0)
        /\ UNCHANGED <<kmVars, thVars, redis_client, written, retry_delays,
                       call, calls_started, since_post, logVars>>

SetSynthesis(session_id, step, data) ==
    SetEntry("set_synthesis", "synthesis", session_id, step, data)

StoreAnalysis(session_id, cache_key, data) ==
    SetEntry("store_analysis", "analysis", session_id, cache_key, data)

\* cache.get_synthesis(session_id, step) and
\* cache.get_analysis(session_id, cache_key)
GetEntry(op, prefix, session_id, name) ==
    LET key == make_cache_key(prefix, session_id, name)
    IN  /\ cache_op' = CacheOp(op, key, "", 0,
                               StrValue(GetParsed(key)), 0)
        /\ UNCHANGED <<kmVars, thVars, redis_client, memory_cache,
                       redis_store, written, retry_delays, call,
                       calls_started, since_post, logVars>>

\* cache.clear_session(session_id)
ClearSession(session_id) ==
    LET r == CacheClearPattern(SessionPattern(session_id))
    IN  /\ memory_cache' = r.memory
        /\ redis_store' = r.redis
        /\ cache_op' = CacheOp("clear_session", SessionPattern(session_id),
                               "", 0, Absent, r.count)
        /\ UNCHANGED <<kmVars, thVars, redis_client, written, retry_delays,
                       call, calls_started, since_post, logVars>>

NextSession ==
    \/ \E sid \in Sessions, st \in SynthSteps, data \in SessionData :
          SetSynthesis(sid, st, data)
    \/ \E sid \in Sessions, ck \in AnalysisKeys, data \in SessionData :
          StoreAnalysis(sid, ck, data)
    \/ \E sid \in Sessions, st \in SynthSteps :
          GetEntry("get_synthesis", "synthesis", sid, st)
    \/ \E sid \in Sessions, ck \in AnalysisKeys :
          GetEntry("get_analysis", "analysis", sid, ck)
    \/ \E sid \in Sessions : ClearSession(sid)

SpecSession == InitPattern /\ [][NextSession]_vars

----------------------------------------------------------------------------
\* Two Cache objects given the same calls: one on the in-memory fallback
\* (memory_cache), one on Redis (redis_store).

BackendKeys == {<<"ns", ":", "x">>, <<"ot", ":", "x">>,
                <<"zz", ":", "ns", ":", "x">>}

\* set(key, value, ttl) on both
BSet(key, value, ttl) ==
    /\ memory_cache' = Put(memory_cache, key, StrValue(value))
    /\ redis_store' = RedisSetex(redis_store, key, StrValue(value), ttl).store
    /\ UNCHANGED <<kmVars, thVars, redis_client, cache_op, written,
                   retry_delays, call, calls_started, since_post, logVars>>

\* delete(key) on both
BDelete(key) ==
    /\ memory_cache' = Remove(memory_cache, {key})
    /\ redis_store' = Remove(redis_store, {key})
    /\ UNCHANGED <<kmVars, thVars, redis_client, cache_op, written,
                   retry_delays, call, calls_started, since_post, logVars>>

\* clear_pattern(pattern) on both
BClear(pattern) ==
    /\ memory_cache' = MemClear(memory_cache, pattern).store
    /\ redis_store' = RedisClear(redis_store, pattern).store
    /\ UNCHANGED <<kmVars, thVars, redis_client, cache_op, written,
                   retry_delays, call, calls_started, since_post, logVars>>

InitBackends ==
    /\ InitCommon
    /\ call = [c \in {1} |-> NewCall]
    /\ keys = <<>>
    /\ redis_client = TRUE
    /\ retry_delays = <<>>

NextBackends ==
    \/ \E k \in BackendKeys, v \in CacheValues, ttl \in 1..MaxTtl :
          BSet(k, v, ttl)
    \/ \E k \in BackendKeys : BDelete(k)
    \/ \E p \in Patterns : BClear(p)
    \/ Tick

SpecBackends == InitBackends /\ [][NextBackends]_vars

----------------------------------------------------------------------------
\* Properties.

Failures == {"status", "network", "malformed"}

\* A step in which coroutine c starts a call.
StartStep(c) ==
    /\ calls_started' # calls_started
    /\ \A d \in DOMAIN call \ {c} : call'[d] = call[d]

\* A step in which wait() grants a slot (writes last_request_time).
GrantStep == write_bit' # write_bit /\ elapsed' = 0

\* A step that is a call of the KeyManager method op.
KmStep(op) == km_op' # km_op /\ km_op'.op = op

\* A step that is a direct call of the Cache method op.
CacheStep(op) == cache_op' # cache_op /\ cache_op'.op = op

\* A step in which an outbound POST starts.
PostStep == \E c \in DOMAIN call : call'[c].pc = "posting" /\ call[c].pc # "posting"

\* C1: a call whose every outbound attempt was answered 429 makes exactly
\* N+1 attempts, sleeps exactly N times and ends with RateLimitError, N
\* being the length of the retry schedule.
C1_AllRateLimited ==
    \A c \in DOMAIN call :
        LET cr == call[c] IN
        /\ cr.n429 = cr.posts => cr.posts <= Len(retry_delays) + 1
        /\ (cr.pc = "done" /\ cr.posts >= 1 /\ cr.n429 = cr.posts) =>
               /\ cr.posts = Len(retry_delays) + 1
               /\ Len(cr.slept) = Len(retry_delays)
               /\ cr.result.kind = "RateLimitError"

C1_Witness ==
    \E c \in DOMAIN call :
        /\ call[c].pc = "done"
        /\ call[c].result.kind = "RateLimitError"
        /\ call[c].n429 = MaxRetries + 1

\* C2: a call answered 429 on its first k attempts and 200 with text on
\* attempt k+1 has slept retry_delays[1..k] in that order and returns that
\* text with cached = false; while the call is in flight it has written
\* nothing to the cache and a lookup of its prompt is still a miss.
C2_RetryThenSuccess ==
    \A c \in DOMAIN call :
        LET cr == call[c] IN
        /\ (cr.pc = "done" /\ cr.last_resp = "text"
                /\ cr.n429 = cr.posts - 1) =>
               /\ cr.slept = SubSeq(retry_delays, 1, cr.n429)
               /\ cr.result = [kind |-> "response", text |-> cr.last_text,
                               cached |-> FALSE, cause |-> ""]
               /\ cr.last_text \in Texts
        /\ cr.pc \notin {"idle", "done"} =>
               /\ cr.n_cache_set = 0
               /\ cr.use_cache => ~Truthy(get_gemini_response(cr.prompt))

C2_Witness ==
    \E c \in DOMAIN call :
        /\ call[c].pc = "done"
        /\ call[c].last_resp = "text"
        /\ call[c].n429 = MaxRetries
        /\ call[c].posts = MaxRetries + 1
        /\ call[c].result.text = "t2"

\* C3: after a 200 answer with empty text the call is over with the
\* fallback string: no sleep and no attempt follows that answer, at any
\* attempt index.
C3_EmptyStopsAtOnce ==
    \A c \in DOMAIN call :
        LET cr == call[c] IN
        cr.last_resp = "empty" =>
            /\ cr.pc = "done"
            /\ cr.result = [kind |-> "response", text |-> FallbackText,
                            cached |-> FALSE, cause |-> ""]
            /\ cr.posts = cr.attempt + 1
            /\ Len(cr.slept) = cr.attempt

C3_Witness ==
    \E c \in DOMAIN call :
        /\ call[c].last_resp = "empty"
        /\ call[c].pc = "done"
        /\ call[c].attempt = 1
        /\ Len(retry_delays) = MaxRetries

\* C4: a call with use_cache whose prompt has a cache entry returns the
\* cached text with cached = true in the very step it starts, without
\* calling Throttler.wait or get_key, without a POST, and leaving the
\* throttler and the key manager as they were.
C4_CacheHitFrame ==
    [][\A c \in DOMAIN call :
          (/\ StartStep(c)
           /\ call'[c].use_cache
           /\ Truthy(get_gemini_response(call'[c].prompt))) =>
              /\ call'[c].pc = "done"
              /\ call'[c].result =
                    [kind |-> "response",
                     text |-> get_gemini_response(call'[c].prompt).text,
                     cached |-> TRUE, cause |-> ""]
              /\ call'[c].n_wait = 0
              /\ call'[c].n_get_key = 0
              /\ call'[c].posts = 0
              /\ UNCHANGED <<thVars, kmVars, since_post>>]_vars

C4_Witness ==
    \E c \in DOMAIN call :
        /\ call[c].pc = "done"
        /\ call[c].result.cached
        /\ call[c].result.text \in Texts

\* C5: with an empty pool the call ends at its first get_key with the
\* no-credentials failure: no sleep, no second attempt.
C5_NoCredentialsNotRetried ==
    \A c \in DOMAIN call :
        LET cr == call[c] IN
        (keys = <<>> /\ cr.n_get_key >= 1) =>
            /\ cr.pc = "done"
            /\ cr.result.kind = "Exception"
            /\ cr.result.cause = "No API keys available"
            /\ cr.n_get_key = 1
            /\ cr.slept = <<>>

\* C6: a call that went through the retry loop ends with RateLimitError
\* exactly when its last permitted attempt (index N) was answered 429; when
\* that attempt failed otherwise the call ends with that failure; a failure
\* at an earlier index is followed by a sleep of retry_delays[attempt].
C6_TerminalOutcomes ==
    \A c \in DOMAIN call :
        LET cr == call[c]
            N  == Len(retry_delays)
        IN
        /\ (cr.pc = "done" /\ cr.n_wait = 1) =>
               /\ cr.result.kind = "RateLimitError" <=>
                      (cr.last_resp = "r429" /\ cr.attempt = N)
               /\ cr.last_resp \in Failures =>
                      /\ cr.attempt = N
                      /\ cr.result.kind = "Exception"
                      /\ cr.result.cause = cr.last_resp
        /\ cr.pc = "retry_sleep" =>
               /\ cr.attempt < N
               /\ cr.slept = SubSeq(retry_delays, 1, cr.attempt + 1)
        /\ cr.pc = "posting" => cr.slept = SubSeq(retry_delays, 1, cr.attempt)

C6_Witness ==
    \E c \in DOMAIN call :
        /\ call[c].pc = "done"
        /\ call[c].result.kind = "Exception"
        /\ call[c].result.cause = "network"
        /\ call[c].n429 >= 1
        /\ call[c].attempt = MaxRetries

\* C7: with the calls of wait() made one after the other, a grant comes at
\* least MinDelay after the timestamp it found in last_request_time, the
\* sleep one call asks for is at most MaxDelay, and a call that finds no
\* timestamp (after construction or reset) is granted at once.
C7_SequentialSpacing ==
    [][/\ GrantStep => (elapsed = NoTime \/ elapsed >= MinDelay)
       /\ \A c \in DOMAIN call :
             call'[c].pc = "throttle_sleep" => call'[c].sleep_left <= MaxDelay
       /\ \A c \in DOMAIN call :
             (StartStep(c) /\ call'[c].n_wait = 1 /\ elapsed = NoTime) =>
                 GrantStep /\ call'[c].pc # "throttle_sleep"]_vars

C7_Witness ==
    \E c \in DOMAIN call :
        /\ calls_started >= 2
        /\ call[c].pc = "throttle_sleep"
        /\ call[c].sleep_left = 0
        /\ elapsed = MinDelay

\* C8: with calls of wait() in flight concurrently, at most one coroutine
\* is between reading last_request_time and writing it, and it holds the
\* lock; nobody writes last_request_time while it is there; and a grant
\* comes at least MinDelay after the previous one.
C8_ConcurrentSpacing ==
    [][/\ Cardinality({c \in DOMAIN call :
                          call'[c].pc = "throttle_sleep"}) <= 1
       /\ \A c \in DOMAIN call :
             call'[c].pc = "throttle_sleep" => lock_owner' = c
       /\ \A c \in DOMAIN call :
             (call[c].pc = "throttle_sleep" /\ call'[c].pc = "throttle_sleep")
                 => write_bit' = write_bit
       /\ GrantStep => (elapsed = NoTime \/ elapsed >= MinDelay)]_vars

C8_Witness ==
    \E c, d \in DOMAIN call :
        /\ call[c].pc = "throttle_sleep"
        /\ call[c].sleep_left = 0
        /\ call[d].pc = "lock_wait"

\* C9: the starts of two consecutive outbound POSTs, first attempts and
\* retries alike, are at least MinDelay apart.
C9_PostSpacing ==
    [][PostStep => (since_post = NoTime \/ since_post >= MinDelay)]_vars

\* C10: with N >= 1 keys and an empty failed set, the i-th of consecutive
\* get_key calls returns keys[(c + i) mod N], c being the cursor at the
\* first call, so N consecutive calls return every key exactly once.
C10_RoundRobin ==
    (keys # <<>> /\ failed_keys = {}) =>
        LET N == Len(keys) IN
        /\ \A i \in 1..Len(key_log) :
              key_log[i] = keys[((log_cursor + i - 1) % N) + 1]
        /\ \A j \in 1..(Len(key_log) - N + 1) :
              {key_log[i] : i \in j..(j + N - 1)} = {keys[i] : i \in 1..N}

C10_Witness ==
    /\ Len(keys) = MaxKeys
    /\ failed_keys = {}
    /\ log_cursor > 0
    /\ Len(key_log) > Len(keys)

C13_CursorInAvailable ==
    keys # <<>> =>
        LET unfailed == Available(keys, failed_keys)
            n == IF unfailed = <<>> THEN Len(keys) ELSE Len(unfailed)
        IN  0 <= current_index /\ current_index < n

\* C13 as amended: on a non-empty pool 0 <= current_index < len(keys), and
\* right after a get_key the cursor is a valid index into the credentials
\* that get_key chose from.
C13_CursorInPool ==
    keys # <<>> =>
        /\ 0 <= current_index /\ current_index < Len(keys)
        /\ km_op.op = "get_key" =>
              current_index < Len(Available(keys, failed_keys))

C13_Witness ==
    /\ km_op.op = "mark_failed"
    /\ Available(keys, failed_keys) # <<>>
    /\ current_index >= Len(Available(keys, failed_keys))

\* C14: get_key and get_random_key do not return a credential of the failed
\* set while some credential is unfailed, and a credential leaves the
\* failed set only by reset_failures or by the clear that get_key and
\* get_random_key run when every credential is failed.
C14_FailedStaysFailed ==
    [][/\ (/\ KmStep("get_key") \/ KmStep("get_random_key")
           /\ Available(keys, failed_keys) # <<>>) =>
              /\ km_op'.key \notin failed_keys
              /\ failed_keys' = failed_keys
       /\ (\E k \in failed_keys : k \notin failed_keys') =>
              \/ KmStep("reset_failures")
              \/ /\ KmStep("get_key") \/ KmStep("get_random_key")
                 /\ km_op'.cleared
                 /\ Available(keys, failed_keys) = <<>>]_vars

C14_Witness ==
    /\ km_op.op = "get_random_key"
    /\ ~km_op.cleared
    /\ Len(keys) = MaxKeys
    /\ Cardinality(failed_keys \cap KeySet(keys)) = MaxKeys - 1
    /\ km_op.key \notin failed_keys

\* C15: mark_failed(c) applied twice gives the failed set that applying it
\* once gives, and a mark_failed call adds c to the failed set and changes
\* neither the cursor nor the key list.
C15_MarkFailedIdempotent ==
    [][/\ \A k \in MarkableKeys :
             mark_failed(mark_failed(failed_keys, k), k)
                 = mark_failed(failed_keys, k)
       /\ KmStep("mark_failed") =>
             /\ failed_keys' = failed_keys \cup {km_op'.key}
             /\ UNCHANGED <<keys, current_index>>]_vars

C15_Witness ==
    /\ km_op.op = "mark_failed"
    /\ km_op.key \in failed_keys
    /\ Cardinality(failed_keys) >= 2
    /\ current_index > 0

\* C16: reset_failures empties the failed set, whatever it holds, and leaves
\* the cursor and the key list as they were.
C16_ResetFrame ==
    [][KmStep("reset_failures") =>
          /\ failed_keys' = {}
          /\ UNCHANGED <<keys, current_index>>]_vars

C16_Witness ==
    /\ km_op.op = "reset_failures"
    /\ failed_keys = {}
    /\ current_index > 0

\* C17: get_random_key returns a configured credential outside the failed
\* set when there is one, none only for an empty key list, clears the failed
\* set first when every credential is failed, and leaves the cursor alone.
C17_RandomKey ==
    [][KmStep("get_random_key") =>
          /\ current_index' = current_index
          /\ km_op'.key = NoKey <=> keys = <<>>
          /\ Available(keys, failed_keys) # <<>> =>
                /\ km_op'.key \in KeySet(keys) \ failed_keys
                /\ failed_keys' = failed_keys
          /\ (keys # <<>> /\ Available(keys, failed_keys) = <<>>) =>
                /\ failed_keys' = {}
                /\ km_op'.key \in KeySet(keys)]_vars

C17_Witness ==
    /\ km_op.op = "get_random_key"
    /\ km_op.cleared
    /\ km_op.key \in KeySet(keys)
    /\ current_index > 0

\* The credential after k in the rotation over ks.
NextInRotation(ks, k) ==
    LET i == CHOOSE j \in 1..Len(ks) : ks[j] = k
    IN  ks[(i % Len(ks)) + 1]

\* C18: with calls in flight concurrently and the failed set unchanged, the
\* credentials get_key hands out, taken across all callers, follow the
\* rotation: each acquisition reads the cursor and advances it by one in
\* the same step, returns the credential after the one returned before,
\* and nothing else moves the cursor.
C18_ConcurrentRotation ==
    [][/\ PostStep =>
             /\ km_op'.op = "get_key"
             /\ km_op'.key = keys[(current_index % Len(keys)) + 1]
             /\ current_index' = (current_index + 1) % Len(keys)
             /\ failed_keys' = failed_keys
             /\ km_op.op = "get_key" =>
                   km_op'.key = NextInRotation(keys, km_op.key)
       /\ ~PostStep => UNCHANGED <<current_index, km_op>>]_vars

C18_Witness ==
    \E c, d \in DOMAIN call :
        /\ c # d
        /\ call[c].pc = "posting" /\ call[c].posts = 1
        /\ call[d].pc = "posting" /\ call[d].posts = 2
        /\ km_op.key = keys[1]
        /\ current_index = 1

\* C19: get(k) does not return an entry written with set(k, v, ttl) once
\* ttl seconds have passed since the write, on Redis and on the in-memory
\* fallback alike, and returns v before that.
C19_NoReadAfterExpiry ==
    [][(CacheStep("get") /\ cache_op'.key \in DOMAIN written) =>
          LET w == written[cache_op'.key] IN
          /\ w.left = 0 => cache_op'.result = Absent
          /\ w.left > 0 => cache_op'.result = StrValue(w.value)]_vars

\* C20: get(k) right after set(k, v) returns v, for every key and string
\* value, whatever was set for k before.
C20_RoundTrip ==
    [][(/\ CacheStep("get")
        /\ cache_op.op = "set"
        /\ cache_op.key = cache_op'.key
        /\ written[cache_op.key].left = cache_op.ttl) =>
           cache_op'.result = StrValue(cache_op.value)]_vars

C20_Witness ==
    /\ cache_op.op = "get"
    /\ cache_op.key \in DOMAIN written
    /\ cache_op.result = StrValue("v2")
    /\ written[cache_op.key] = [value |-> "v2", ttl |-> MaxTtl, left |-> MaxTtl]
    /\ redis_client

\* C21: clear_pattern("ns:*") removes exactly the keys that start with
\* "ns:" and returns how many they were; every other key, also one that
\* holds the text "ns:" further inside, keeps its value.
C21_ClearByPrefix ==
    [][CacheStep("clear") =>
          LET prefix == StripStars(cache_op'.key)
              hit == {k \in PatternKeys :
                         StartsWith(k, prefix) /\ CacheGet(k) # Absent}
          IN  /\ cache_op'.count = Cardinality(hit)
              /\ \A k \in PatternKeys :
                    IF StartsWith(k, prefix)
                    THEN CacheGet(k)' = Absent
                    ELSE CacheGet(k)' = CacheGet(k)]_vars

\* C22: after the same set, delete and clear_pattern calls and the same
\* passage of time, the in-memory fallback and Redis answer alike: get
\* returns the same for every key and clear_pattern would return the same
\* count for every pattern.
C22_BackendsAgree ==
    /\ \A k \in BackendKeys : MemGet(k) = RedisGet(k)
    /\ \A p \in Patterns :
          MemClear(memory_cache, p).count = RedisClear(redis_store, p).count

\* C23: when the connection to Redis fails at construction (the module is
\* missing, the client creation raises or the ping raises) the Cache has no
\* Redis client, and every later get, set, delete and clear_pattern works
\* on the in-memory store and leaves Redis alone.
C23_FallbackOnConnectFailure ==
    [][/\ \A o \in ConnectOutcomes \ {"ok"} : ~CacheInit(o)
       /\ ~redis_client =>
             /\ ~redis_client'
             /\ redis_store' = redis_store
             /\ CacheStep("get") =>
                   cache_op'.result = MemGet(cache_op'.key)
             /\ CacheStep("set") =>
                   memory_cache' = Put(memory_cache, cache_op'.key,
                                       StrValue(cache_op'.value))
             /\ CacheStep("delete") =>
                   memory_cache' = Remove(memory_cache, {cache_op'.key})
             /\ CacheStep("clear") =>
                   /\ memory_cache' = MemClear(memory_cache, cache_op'.key).store
                   /\ cache_op'.count
                         = MemClear(memory_cache, cache_op'.key).count]_vars

C23_Witness ==
    /\ ~redis_client
    /\ cache_op.op = "get"
    /\ cache_op.result = StrValue("v1")
    /\ Cardinality(DOMAIN memory_cache) >= 2
    /\ redis_store = EmptyMap

\* C24: a call_with_retry(prompt, use_cache=true) made right after one with
\* the same prompt and use_cache=true that got non-empty text from the
\* upstream returns that text with cached = true and makes no outbound
\* call, on Redis and on the in-memory fallback.
C24_SecondCallHits ==
    [][\A c \in DOMAIN call :
          (/\ StartStep(c)
           /\ call[c].pc = "done"
           /\ call[c].use_cache
           /\ call[c].result.kind = "response"
           /\ ~call[c].result.cached
           /\ call[c].last_resp = "text"
           /\ call'[c].use_cache
           /\ call'[c].prompt = call[c].prompt) =>
              /\ call'[c].pc = "done"
              /\ call'[c].result =
                    [kind |-> "response", text |-> call[c].result.text,
                     cached |-> TRUE, cause |-> ""]
              /\ call'[c].posts = 0]_vars

\* C25: the cache key of a response depends on the prompt alone: a call
\* with use_cache made after one with the same prompt and use_cache that
\* got text from the upstream returns that text as cached, also when its
\* temperature or max_output_tokens differ.
C25_KeyIgnoresParameters ==
    [][\A c \in DOMAIN call :
          (/\ StartStep(c)
           /\ call[c].pc = "done"
           /\ call[c].use_cache
           /\ call[c].result.kind = "response"
           /\ ~call[c].result.cached
           /\ call[c].last_resp = "text"
           /\ call'[c].use_cache
           /\ call'[c].prompt = call[c].prompt
           /\ \/ call'[c].temperature # call[c].temperature
              \/ call'[c].max_output_tokens # call[c].max_output_tokens) =>
              /\ call'[c].pc = "done"
              /\ call'[c].result =
                    [kind |-> "response", text |-> call[c].result.text,
                     cached |-> TRUE, cause |-> ""]]_vars

\* C26: call_with_retry never adds a credential to the failed set: every
\* step of a call (every step that is not a direct mark_failed) leaves the
\* failed set with no credential that was not in it before, whatever the
\* upstream answers, 429 on every attempt included.
C26_ClientNeverMarksFailed ==
    [][~KmStep("mark_failed") => failed_keys' \subseteq failed_keys]_vars

C26_Witness ==
    \E c \in DOMAIN call :
        /\ call[c].pc = "done"
        /\ call[c].result.kind = "RateLimitError"
        /\ call[c].n429 = call[c].posts
        /\ call[c].posts = Len(retry_delays) + 1
        /\ failed_keys = {"k1"}

\* A step in which call c is abandoned.
CancelStep(c) ==
    /\ call[c].pc # "done"
    /\ call'[c].pc = "done"
    /\ call'[c].result.kind = "CancelledError"

\* Some call was abandoned after its grant and its acquisition.
AbandonedAfterGrant ==
    \E c \in DOMAIN call :
        /\ call[c].pc = "done"
        /\ call[c].result.kind = "CancelledError"
        /\ call[c].n_get_key >= 1

\* C27: abandoning a call after the grant or after an acquisition rolls
\* nothing back: the step leaves the rotation cursor, the failed set and
\* the pacing timestamp as they are, and later callers observe them: the
\* next sleep of wait() is measured from the timestamp left behind and the
\* next get_key answers the key under the cursor left behind.
C27_NoRollbackOnCancel ==
    [][/\ \A c \in DOMAIN call :
             (CancelStep(c) /\ call[c].n_get_key >= 1) =>
                 UNCHANGED <<current_index, failed_keys, elapsed, write_bit>>
       /\ AbandonedAfterGrant =>
             /\ \A c \in DOMAIN call :
                    (call[c].pc # "throttle_sleep"
                     /\ call'[c].pc = "throttle_sleep") =>
                        /\ elapsed # NoTime
                        /\ call'[c].sleep_left + elapsed
                               \in MinDelay..MaxDelay
             /\ KmStep("get_key") =>
                    /\ km_op'.key = keys[current_index + 1]
                    /\ current_index' = (current_index + 1) % Len(keys)]_vars

C27_Witness ==
    \E c, d \in DOMAIN call :
        /\ call[c].pc = "done"
        /\ call[c].result.kind = "CancelledError"
        /\ call[c].posts = 1
        /\ call[d].pc = "throttle_sleep"
        /\ call[d].sleep_left > 0
        /\ current_index = 1
        /\ calls_started = 2

\* C28: clear_session(s) clears all cache for session s: after it no
\* entry of s is readable, synthesis and analysis entries alike, and what
\* is readable of the other sessions is what was readable before.
C28_ClearSessionClearsAll ==
    [][\A s \in Sessions :
          (CacheStep("clear_session")
           /\ cache_op'.key = SessionPattern(s)) =>
              /\ \A st \in SynthSteps : get_synthesis(s, st)' = NoData
              /\ \A ck \in AnalysisKeys : get_analysis(s, ck)' = NoData
              /\ \A o \in Sessions \ {s} :
                    /\ \A st \in SynthSteps :
                          get_synthesis(o, st)' = get_synthesis(o, st)
                    /\ \A ck \in AnalysisKeys :
                          get_analysis(o, ck)' = get_analysis(o, ck)]_vars

\* C29: on a cache miss call_with_retry looks up the cache, passes
\* Throttler.wait exactly once, runs the attempt loop and writes the cache
\* on success: a call waiting for its slot has acquired no key, started no
\* POST and written nothing; its first acquisition is made in the step of
\* the grant; a retry leaves the pacer alone; the cache is written only by
\* the step that returns the text of a POST.
C29_MissOrder ==
    [][\A c \in DOMAIN call :
          LET old == call[c]
              new == call'[c]
          IN  /\ new.n_wait <= 1
              /\ new.pc \in {"lock_wait", "throttle_sleep"} =>
                    /\ new.n_wait = 1
                    /\ new.n_get_key = 0 /\ new.posts = 0
                    /\ new.n_cache_set = 0
              /\ (new.n_get_key >= 1 \/ new.posts >= 1) => new.n_wait = 1
              /\ (new.n_get_key = 1 /\ old.n_get_key = 0) => GrantStep
              /\ (old.pc = "retry_sleep" /\ new.pc # "retry_sleep") =>
                    /\ UNCHANGED thVars
                    /\ new.n_wait = old.n_wait
              /\ (new.n_cache_set = 1 /\ old.n_cache_set = 0) =>
                    /\ old.pc = "posting"
                    /\ new.pc = "done"
                    /\ new.result.kind = "response"
                    /\ ~new.result.cached
              /\ new.n_cache_set <= 1]_vars

C29_Witness ==
    \E c \in DOMAIN call :
        /\ call[c].pc = "done"
        /\ call[c].result.kind = "response"
        /\ ~call[c].result.cached
        /\ call[c].n_wait = 1
        /\ call[c].posts = 2
        /\ call[c].n_cache_set = 1

\* C30: wait() writes last_request_time after its sleep, in the step that
\* grants the slot: entering the sleep writes nothing, every write is made
\* by a call leaving wait() with its sleep over, and the end of a POST
\* writes nothing, so the sleep of the next caller is a delay of
\* MinDelay..MaxDelay less the time since that grant, however long the
\* granted call's POST is taking.
C30_StampAtGrant ==
    [][/\ write_bit' # write_bit =>
             /\ elapsed' = 0
             /\ \E c \in DOMAIN call :
                    /\ call'[c].n_wait = 1 /\ call'[c].n_get_key = 1
                    /\ call[c].pc \in {"idle", "done", "lock_wait",
                                        "throttle_sleep"}
                    /\ call[c].pc = "throttle_sleep" =>
                          call[c].sleep_left = 0
       /\ \A c \in DOMAIN call :
             /\ (call[c].pc # "throttle_sleep"
                 /\ call'[c].pc = "throttle_sleep") =>
                    /\ UNCHANGED <<elapsed, write_bit>>
                    /\ elapsed # NoTime
                    /\ call'[c].sleep_left + elapsed \in MinDelay..MaxDelay
             /\ (call[c].pc = "posting" /\ call'[c].pc # "posting") =>
                    UNCHANGED <<elapsed, write_bit>>]_vars

C30_Witness ==
    \E c, d \in DOMAIN call :
        /\ call[c].pc = "posting"
        /\ call[c].posts = 1
        /\ call[d].pc = "throttle_sleep"
        /\ call[d].sleep_left = 0
        /\ elapsed >= MinDelay

InWait(c) == call[c].pc \in {"lock_wait", "throttle_sleep"}

\* C31: wait() cannot fail, only delay: with the event loop running every
\* ready coroutine, every caller inside wait(), queued for the lock or
\* asleep with it, is eventually granted its slot and goes on to its first
\* acquisition.
C31_EveryWaiterGranted ==
    \A c \in 1..NumCallers :
        InWait(c) ~> (~InWait(c) /\ call[c].n_wait = 1
                      /\ call[c].n_get_key >= 1)

\* The holder of the lock has been granted and has released it while
\* another caller is queued for it.
C31_Witness ==
    \E c, d \in DOMAIN call :
        /\ call[c].pc = "lock_wait"
        /\ lock_waiters = <<c>>
        /\ lock_owner = NoCaller
        /\ call[d].pc = "posting"
        /\ call[d].n_wait = 1
        /\ elapsed = 0

\* C32: with use_cache false call_with_retry neither reads nor writes the
\* cache: it enters the pacer whatever the cache holds, its result is never
\* a cached one, a text it returns comes from a POST, and none of its steps
\* changes the cache contents.
C32_NoCacheWhenDisabled ==
    [][\A c \in DOMAIN call :
          /\ (StartStep(c) /\ ~call'[c].use_cache) =>
                /\ call'[c].n_wait = 1
                /\ ~call'[c].result.cached
                /\ UNCHANGED <<memory_cache, redis_store>>
          /\ (~call[c].use_cache /\ call[c].pc \notin {"idle", "done"}
              /\ call'[c].pc # call[c].pc) =>
                /\ UNCHANGED <<memory_cache, redis_store>>
                /\ call'[c].n_cache_set = 0
                /\ ~call'[c].result.cached
                /\ call'[c].result.kind = "response" => call'[c].posts >= 1]_vars

\* A call with use_cache false has returned the upstream's text while the
\* cache holds another text for its prompt.
C32_Witness ==
    \E c \in DOMAIN call :
        /\ call[c].pc = "done"
        /\ ~call[c].use_cache
        /\ call[c].result.kind = "response"
        /\ Truthy(get_gemini_response(call[c].prompt))
        /\ get_gemini_response(call[c].prompt).text # call[c].result.text
        /\ call[c].result.text = call[c].last_text

\* C33: 429s and other failures share one attempt counter: a call makes
\* at most N+1 acquisitions and POSTs and sleeps at most N times, its i-th
\* sleep is the i-th delay of the schedule, it never ends with "Maximum
\* retries exceeded", and a call that has started always ends, with a text
\* or an error.
C33_SharedAttemptCounter ==
    /\ [](\A c \in DOMAIN call :
            LET cr == call[c]
                N  == Len(retry_delays)
            IN  /\ cr.posts <= N + 1
                /\ cr.n_get_key <= N + 1
                /\ Len(cr.slept) <= N
                /\ cr.slept = SubSeq(retry_delays, 1, Len(cr.slept))
                /\ cr.attempt <= N
                /\ cr.result.cause # "Maximum retries exceeded"
                /\ cr.pc = "done" =>
                      cr.result.kind \in {"response", "RateLimitError",
                                          "Exception"})
    /\ \A c \in {1} :
          (call[c].pc \notin {"idle", "done"}) ~> (call[c].pc = "done")

\* A call that met a 429 and another failure has used up the schedule.
C33_Witness ==
    \E c \in DOMAIN call :
        /\ call[c].pc = "done"
        /\ call[c].n429 >= 1
        /\ call[c].n429 < call[c].posts
        /\ call[c].last_resp \in {"r429", "network"}
        /\ call[c].posts = MaxRetries + 1
        /\ call[c].slept = retry_delays

Errors == {"RateLimitError", "Exception"}

\* C34: a call that ends in an error writes nothing to the cache: the step
\* that raises leaves the cache contents as they are, the call has made no
\* cache write, its prompt is still a miss when it had use_cache, and the
\* next call with that prompt and use_cache enters the pacer again.
C34_FailureWritesNothing ==
    [][\A c \in DOMAIN call :
          /\ ((call[c].pc # "done" \/ StartStep(c))
              /\ call'[c].pc = "done"
              /\ call'[c].result.kind \in Errors) =>
                /\ UNCHANGED <<memory_cache, redis_store>>
                /\ call'[c].n_cache_set = 0
                /\ \A p \in Prompts :
                      (call'[c].use_cache /\ call'[c].prompt = p) =>
                          ~Truthy(get_gemini_response(p))'
          /\ (StartStep(c) /\ call[c].pc = "done"
              /\ call[c].result.kind \in Errors
              /\ call[c].use_cache /\ call'[c].use_cache
              /\ call'[c].prompt = call[c].prompt) =>
                /\ call'[c].n_wait = 1
                /\ ~call'[c].result.cached]_vars

\* A call has failed after a POST while the cache keeps the entry of
\* another prompt.
C34_Witness ==
    \E c \in DOMAIN call :
        /\ call[c].pc = "done"
        /\ call[c].result.kind \in Errors
        /\ call[c].use_cache
        /\ call[c].posts >= 1
        /\ \E p \in Prompts \ {call[c].prompt} :
              Truthy(get_gemini_response(p))

\* C35: when the upstream answers 200 with empty text to a call with
\* use_cache, the fallback string is stored under the prompt's key: the
\* step that returns it leaves it readable there, and a following call with
\* that prompt and use_cache returns it with cached = true without a POST.
C35_FallbackIsCached ==
    [][\A c \in DOMAIN call, p \in Prompts :
          /\ (call[c].pc = "posting" /\ call'[c].pc = "done"
              /\ call'[c].last_resp = "empty"
              /\ call'[c].use_cache /\ call'[c].prompt = p) =>
                get_gemini_response(p)' = DictValue(FallbackText)
          /\ (StartStep(c)
              /\ call[c].pc = "done"
              /\ call[c].use_cache
              /\ call[c].last_resp = "empty"
              /\ call'[c].use_cache
              /\ call[c].prompt = p /\ call'[c].prompt = p) =>
                /\ call'[c].pc = "done"
                /\ call'[c].result =
                      [kind |-> "response", text |-> FallbackText,
                       cached |-> TRUE, cause |-> ""]
                /\ call'[c].posts = 0]_vars

\* C36: while the failed set stays as it is and leaves m >= 1 credentials
\* available, consecutive get_key calls go round the available credentials
\* from wherever the cursor stood: the i-th call returns
\* available[(c + i) mod m], so any m consecutive calls return each
\* available credential exactly once.
C36_RotationOverAvailable ==
    LET available == Available(keys, failed_keys)
        m == Len(available)
    IN  m >= 1 =>
          /\ \A i \in 1..Len(key_log) :
                key_log[i] = available[((log_cursor + i - 1) % m) + 1]
          /\ \A j \in 1..(Len(key_log) - m + 1) :
                /\ {key_log[i] : i \in j..(j + m - 1)} = KeySet(available)
                /\ \A i1, i2 \in j..(j + m - 1) :
                      key_log[i1] = key_log[i2] => i1 = i2

\* After a mark_failed the rotation has started again with the credential
\* returned last before it, and has since gone once round the available
\* credentials.
C36_Witness ==
    /\ failed_keys # {}
    /\ Len(Available(keys, failed_keys)) = 2
    /\ Len(key_log) >= 2
    /\ log_prev = key_log[1]
    /\ log_cursor >= 2

\* C37: concurrent calls with one prompt and use_cache are not merged: a
\* call that starts while the prompt has no entry enters the pacer, also
\* when another call for that prompt is in flight, and makes its own POST
\* once granted; each successful return writes its text under the prompt's
\* key, so the cache holds the text of the write made last.
C37_NoSingleFlight ==
    [][\A c \in DOMAIN call, p \in Prompts :
          /\ (StartStep(c) /\ call'[c].use_cache /\ call'[c].prompt = p
              /\ ~Truthy(get_gemini_response(p))) =>
                /\ call'[c].n_wait = 1
                /\ call'[c].pc \in {"lock_wait", "throttle_sleep", "posting"}
          /\ (call[c].n_get_key = 0 /\ call'[c].n_get_key = 1
              /\ ~StartStep(c)) =>
                call'[c].pc = "posting"
          /\ (call[c].pc = "posting" /\ call'[c].pc = "done"
              /\ call'[c].last_resp = "text"
              /\ call'[c].use_cache /\ call'[c].prompt = p) =>
                get_gemini_response(p)' = DictValue(call'[c].last_text)]_vars

\* C38: a caller cancelled while it sleeps inside wait() with the lock
\* releases the lock and leaves last_request_time and the queue as they
\* were, and every caller inside wait() still leaves it: nobody blocks
\* forever on the lock.
C38_CancelInSleepReleasesLock ==
    /\ [][\A c \in DOMAIN call :
             (CancelStep(c) /\ call[c].pc = "throttle_sleep") =>
                 /\ lock_owner = c
                 /\ lock_owner' = NoCaller
                 /\ UNCHANGED <<elapsed, write_bit, lock_waiters>>]_vars
    /\ \A c \in 1..NumCallers : InWait(c) ~> ~InWait(c)

\* A call was cancelled in the middle of its sleep in wait() and another
\* caller holds the lock now, the timestamp still in place.
C38_Witness ==
    \E c, d \in DOMAIN call :
        /\ call[c].pc = "done"
        /\ call[c].result.kind = "CancelledError"
        /\ call[c].n_get_key = 0
        /\ call[c].sleep_left > 0
        /\ call[d].pc = "throttle_sleep"
        /\ lock_owner = d
        /\ elapsed # NoTime

\* C39: a Cache operation whose backend call raises returns to its caller
\* all the same: get returns None, set and delete return False,
\* clear_pattern returns 0, and the in-memory store is as it was.
C39_CacheNeverRaises ==
    [][(cache_op' # cache_op /\ cache_op'.fault # "none") =>
          /\ memory_cache' = memory_cache
          /\ cache_op'.op = "get" => cache_op'.result = Absent
          /\ cache_op'.op \in {"set", "delete"} =>
                cache_op'.result = BoolValue(FALSE)
          /\ cache_op'.op = "clear" => cache_op'.count = 0]_vars

\* A set has failed on the in-memory store that holds another entry.
C39_Witness ==
    /\ cache_op.op = "set"
    /\ cache_op.fault # "none"
    /\ cache_op.result = BoolValue(FALSE)
    /\ ~redis_client
    /\ DOMAIN memory_cache # {}
    /\ cache_op.key \notin DOMAIN memory_cache

\* C40: whatever get_key, get_random_key, mark_failed and reset_failures
\* calls were made, the failed set holds configured keys only, and the
\* numbers of get_stats add up: available_keys + failed_keys = total_keys.
C40_FailedWithinPool ==
    /\ failed_keys \subseteq KeySet(keys)
    /\ LET stats == get_stats(keys, failed_keys)
       IN  stats.available_keys + stats.failed_keys = stats.total_keys

=============================================================================
